--------------------------- MODULE Spec2Model ---------------------------
(***************************************************************************)
(* Region resolution of rust-s3 (src/region.rs): the Region enum, its      *)
(* Display and FromStr implementations and the accessors endpoint, scheme  *)
(* and host.                                                               *)
(*                                                                         *)
(* Strings are TLA+ strings; TLC evaluates Len, \o and SubSeq on them, so  *)
(* a Rust byte offset k into an ASCII string s is position k+1 here:       *)
(*     &s[..pos]      is  SubSeq(s, 1, pos)                                *)
(*     &s[pos + 3..]  is  SubSeq(s, pos + 4, Len(s))                       *)
(* All strings of the model are ASCII, where bytes and characters agree.   *)
(***************************************************************************)
EXTENDS Integers, Sequences, FiniteSets, TLC

VARIABLES
    input,      \* the &str last handed to from_str ("" before any parse)
    parsed,     \* the S3Result<Region> from_str returned, or NoResult
    region,     \* the Region value under construction / shared by the callers
    first,      \* per accessor: the value its first call on `region` returned
    last,       \* the most recent accessor call: who, which, and what it returned
    again       \* the result of parsing what Display wrote, or NoResult

vars == <<input, parsed, region, first, last, again>>

-----------------------------------------------------------------------------
(* Bounds of the model *)

\* longest string generated over Alphabet
MaxLen == 5

\* number of callers sharing the one Region value
NumCallers == 2

Callers == 1 .. NumCallers

-----------------------------------------------------------------------------
(* The Region enum: 18 unit variants and Custom(String) *)

KnownTags ==
    { "UsEast1", "UsEast2", "UsWest1", "UsWest2", "CaCentral1", "ApSouth1",
      "ApNortheast1", "ApNortheast2", "ApSoutheast1", "ApSoutheast2",
      "EuCentral1", "EuWest1", "EuWest2", "EuWest3", "SaEast1",
      "DoNyc3", "DoAms3", "DoSgp1" }

\* a unit variant: the payload field is unused and kept empty
Known(t) == [tag |-> t, endpoint |-> ""]

\* Region::Custom(String)
Custom(s) == [tag |-> "Custom", endpoint |-> s]

\* no Region value has been constructed yet
Unbuilt == [tag |-> "Unbuilt", endpoint |-> ""]

\* S3Result<Region>
Ok(r) == [ok |-> TRUE, val |-> r]

Err == [ok |-> FALSE, val |-> Unbuilt]

\* what a caller of from_str holds: nothing yet, or the returned result
NoResult == [returned |-> FALSE, res |-> Err]

Returned(x) == [returned |-> TRUE, res |-> x]

\* what is recorded of an accessor: not called yet, or the &str it returned
NotCalled == [called |-> FALSE, val |-> ""]

Called(v) == [called |-> TRUE, val |-> v]

Ops == { "fmt", "endpoint", "scheme", "host" }

\* repeat: the accessor had been called on the value before
NoCall == [called |-> FALSE, caller |-> 0, op |-> "fmt", val |-> "", repeat |-> FALSE]

Call(c, o, v, rep) == [called |-> TRUE, caller |-> c, op |-> o, val |-> v, repeat |-> rep]

\* Option<usize>
Some(k) == [some |-> TRUE, pos |-> k]

None == [some |-> FALSE, pos |-> 0]

-----------------------------------------------------------------------------
(* The region table of the specification (section 6): tag, Parse/Display   *)
(* string, default host.  The claims are stated against this table.        *)

RegionTable ==
    { [tag |-> "UsEast1",      name |-> "us-east-1",      host |-> "s3.amazonaws.com"],
      [tag |-> "UsEast2",      name |-> "us-east-2",      host |-> "s3-us-east-2.amazonaws.com"],
      [tag |-> "UsWest1",      name |-> "us-west-1",      host |-> "s3-us-west-1.amazonaws.com"],
      [tag |-> "UsWest2",      name |-> "us-west-2",      host |-> "s3-us-west-2.amazonaws.com"],
      [tag |-> "CaCentral1",   name |-> "ca-central-1",   host |-> "s3-ca-central-1.amazonaws.com"],
      [tag |-> "ApSouth1",     name |-> "ap-south-1",     host |-> "s3-ap-south-1.amazonaws.com"],
      [tag |-> "ApNortheast1", name |-> "ap-northeast-1", host |-> "s3-ap-northeast-1.amazonaws.com"],
      [tag |-> "ApNortheast2", name |-> "ap-northeast-2", host |-> "s3-ap-northeast-2.amazonaws.com"],
      [tag |-> "ApSoutheast1", name |-> "ap-southeast-1", host |-> "s3-ap-southeast-1.amazonaws.com"],
      [tag |-> "ApSoutheast2", name |-> "ap-southeast-2", host |-> "s3-ap-southeast-2.amazonaws.com"],
      [tag |-> "EuCentral1",   name |-> "eu-central-1",   host |-> "s3-eu-central-1.amazonaws.com"],
      [tag |-> "EuWest1",      name |-> "eu-west-1",      host |-> "s3-eu-west-1.amazonaws.com"],
      [tag |-> "EuWest2",      name |-> "eu-west-2",      host |-> "s3-eu-west-2.amazonaws.com"],
      [tag |-> "EuWest3",      name |-> "eu-west-3",      host |-> "s3-eu-west-3.amazonaws.com"],
      [tag |-> "SaEast1",      name |-> "sa-east-1",      host |-> "s3-sa-east-1.amazonaws.com"],
      [tag |-> "DoNyc3",       name |-> "nyc3",           host |-> "nyc3.digitaloceanspaces.com"],
      [tag |-> "DoAms3",       name |-> "ams3",           host |-> "ams3.digitaloceanspaces.com"],
      [tag |-> "DoSgp1",       name |-> "sgp1",           host |-> "sgp1.digitaloceanspaces.com"] }

TableNames == { e.name : e \in RegionTable }

TableEntry(t) == CHOOSE e \in RegionTable : e.tag = t

\* s contains the separator "://" somewhere
HasSep(s) == \E k \in 1 .. (Len(s) - 2) : SubSeq(s, k, k + 2) = "://"


\* the table entry whose name is n
TableByName(n) == CHOOSE e \in RegionTable : e.name = n

-----------------------------------------------------------------------------
(* impl fmt::Display for Region *)

\* mutant of fmt: a copied arm, EuWest3 written as "eu-west-2"
fmt_copied(r) ==
    IF r.tag = "Custom" THEN "custom"
    ELSE IF r.tag = "EuWest3" THEN "eu-west-2"
    ELSE TableEntry(r.tag).name

\* mutant of fmt: the Custom arm echoes the stored endpoint
fmt_payload(r) ==
    IF r.tag = "Custom" THEN r.endpoint ELSE TableEntry(r.tag).name

fmt(r) ==
    CASE r.tag = "UsEast1"      -> "us-east-1"
      [] r.tag = "UsEast2"      -> "us-east-2"
      [] r.tag = "UsWest1"      -> "us-west-1"
      [] r.tag = "UsWest2"      -> "us-west-2"
      [] r.tag = "CaCentral1"   -> "ca-central-1"
      [] r.tag = "ApSouth1"     -> "ap-south-1"
      [] r.tag = "ApNortheast1" -> "ap-northeast-1"
      [] r.tag = "ApNortheast2" -> "ap-northeast-2"
      [] r.tag = "ApSoutheast1" -> "ap-southeast-1"
      [] r.tag = "ApSoutheast2" -> "ap-southeast-2"
      [] r.tag = "EuCentral1"   -> "eu-central-1"
      [] r.tag = "EuWest1"      -> "eu-west-1"
      [] r.tag = "EuWest2"      -> "eu-west-2"
      [] r.tag = "EuWest3"      -> "eu-west-3"
      [] r.tag = "SaEast1"      -> "sa-east-1"
      [] r.tag = "DoNyc3"       -> "nyc3"
      [] r.tag = "DoAms3"       -> "ams3"
      [] r.tag = "DoSgp1"       -> "sgp1"
      [] r.tag = "Custom"       -> "custom"

-----------------------------------------------------------------------------
(* impl FromStr for Region *)

\* mutant of from_str: an unrecognised name is an error
from_str_strict(s) ==
    IF s \in TableNames THEN Ok(Known(TableByName(s).tag)) ELSE Err

\* mutant of from_str: whitespace after the name is ignored when matching
from_str_trim(s) ==
    LET t == IF Len(s) > 0 /\ SubSeq(s, Len(s), Len(s)) = " "
             THEN SubSeq(s, 1, Len(s) - 1) ELSE s
    IN  IF t \in TableNames THEN Ok(Known(TableByName(t).tag)) ELSE Ok(Custom(s))

from_str(s) ==
    CASE s = "us-east-1"      -> Ok(Known("UsEast1"))
      [] s = "us-east-2"      -> Ok(Known("UsEast2"))
      [] s = "us-west-1"      -> Ok(Known("UsWest1"))
      [] s = "us-west-2"      -> Ok(Known("UsWest2"))
      [] s = "ca-central-1"   -> Ok(Known("CaCentral1"))
      [] s = "ap-south-1"     -> Ok(Known("ApSouth1"))
      [] s = "ap-northeast-1" -> Ok(Known("ApNortheast1"))
      [] s = "ap-northeast-2" -> Ok(Known("ApNortheast2"))
      [] s = "ap-southeast-1" -> Ok(Known("ApSoutheast1"))
      [] s = "ap-southeast-2" -> Ok(Known("ApSoutheast2"))
      [] s = "eu-central-1"   -> Ok(Known("EuCentral1"))
      [] s = "eu-west-1"      -> Ok(Known("EuWest1"))
      [] s = "eu-west-2"      -> Ok(Known("EuWest2"))
      [] s = "eu-west-3"      -> Ok(Known("EuWest3"))
      [] s = "sa-east-1"      -> Ok(Known("SaEast1"))
      [] s = "nyc3"           -> Ok(Known("DoNyc3"))
      [] s = "ams3"           -> Ok(Known("DoAms3"))
      [] s = "sgp1"           -> Ok(Known("DoSgp1"))
      [] OTHER                -> Ok(Custom(s))

-----------------------------------------------------------------------------
(* str::find with a string pattern: byte offset of the first match *)

\* the byte offsets at which pat occurs in s
matches(s, pat) ==
    { k \in 0 .. (Len(s) - Len(pat)) : SubSeq(s, k + 1, k + Len(pat)) = pat }

find(s, pat) ==
    LET hits == matches(s, pat)
    IN  IF hits = {} THEN None
        ELSE Some(CHOOSE k \in hits : \A j \in hits : k <= j)

-----------------------------------------------------------------------------
(* impl Region *)

\* str::rfind: byte offset of the last match
rfind(s, pat) ==
    LET hits == matches(s, pat)
    IN  IF hits = {} THEN None
        ELSE Some(CHOOSE k \in hits : \A j \in hits : k >= j)

\* mutant of endpoint: us-east-1 given the regional host name pattern
endpoint_regional(r) ==
    IF r.tag = "Custom" THEN r.endpoint
    ELSE IF r.tag = "UsEast1" THEN "s3-us-east-1.amazonaws.com"
    ELSE TableEntry(r.tag).host

\* mutant of endpoint: the Custom arm strips the scheme, as host does
endpoint_stripped(r) ==
    IF r.tag = "Custom"
    THEN LET s == r.endpoint
             f == find(s, "://")
         IN  IF f.some THEN SubSeq(s, f.pos + 4, Len(s)) ELSE s
    ELSE TableEntry(r.tag).host

endpoint(r) ==
    CASE r.tag = "UsEast1"      -> "s3.amazonaws.com"
      [] r.tag = "UsEast2"      -> "s3-us-east-2.amazonaws.com"
      [] r.tag = "UsWest1"      -> "s3-us-west-1.amazonaws.com"
      [] r.tag = "UsWest2"      -> "s3-us-west-2.amazonaws.com"
      [] r.tag = "CaCentral1"   -> "s3-ca-central-1.amazonaws.com"
      [] r.tag = "ApSouth1"     -> "s3-ap-south-1.amazonaws.com"
      [] r.tag = "ApNortheast1" -> "s3-ap-northeast-1.amazonaws.com"
      [] r.tag = "ApNortheast2" -> "s3-ap-northeast-2.amazonaws.com"
      [] r.tag = "ApSoutheast1" -> "s3-ap-southeast-1.amazonaws.com"
      [] r.tag = "ApSoutheast2" -> "s3-ap-southeast-2.amazonaws.com"
      [] r.tag = "EuCentral1"   -> "s3-eu-central-1.amazonaws.com"
      [] r.tag = "EuWest1"      -> "s3-eu-west-1.amazonaws.com"
      [] r.tag = "EuWest2"      -> "s3-eu-west-2.amazonaws.com"
      [] r.tag = "EuWest3"      -> "s3-eu-west-3.amazonaws.com"
      [] r.tag = "SaEast1"      -> "s3-sa-east-1.amazonaws.com"
      [] r.tag = "DoNyc3"       -> "nyc3.digitaloceanspaces.com"
      [] r.tag = "DoAms3"       -> "ams3.digitaloceanspaces.com"
      [] r.tag = "DoSgp1"       -> "sgp1.digitaloceanspaces.com"
      [] r.tag = "Custom"       -> r.endpoint

\* mutant of scheme: splits at the last separator
scheme_rfind(r) ==
    IF r.tag = "Custom"
    THEN LET s == r.endpoint
             f == rfind(s, "://")
         IN  IF f.some THEN SubSeq(s, 1, f.pos) ELSE "https"
    ELSE "https"

scheme(r) ==
    IF r.tag = "Custom"
    THEN LET s == r.endpoint
             f == find(s, "://")
         IN  IF f.some THEN SubSeq(s, 1, f.pos) ELSE "https"
    ELSE "https"

\* mutant of host: &s[pos + 2..], one byte of the separator kept
host_short(r) ==
    IF r.tag = "Custom"
    THEN LET s == r.endpoint
             f == find(s, "://")
         IN  IF f.some THEN SubSeq(s, f.pos + 3, Len(s)) ELSE s
    ELSE endpoint(r)

\* mutant of host: splits at the last separator
host_rfind(r) ==
    IF r.tag = "Custom"
    THEN LET s == r.endpoint
             f == rfind(s, "://")
         IN  IF f.some THEN SubSeq(s, f.pos + 4, Len(s)) ELSE s
    ELSE endpoint(r)

host(r) ==
    IF r.tag = "Custom"
    THEN LET s == r.endpoint
             f == find(s, "://")
         IN  IF f.some THEN SubSeq(s, f.pos + 4, Len(s)) ELSE s
    ELSE endpoint(r)

-----------------------------------------------------------------------------
(* Inputs *)

Alphabet == { "a", ":", "/" }

RECURSIVE Strs(_)
\* every string over Alphabet of length at most n
Strs(n) ==
    IF n = 0 THEN { "" }
    ELSE LET shorter == Strs(n - 1)
         IN  shorter \cup { s \o c : s \in shorter, c \in Alphabet }

Lowers == "abcdefghijklmnopqrstuvwxyz"

Uppers == "ABCDEFGHIJKLMNOPQRSTUVWXYZ"

UpperChar(c) ==
    IF \E i \in 1 .. Len(Lowers) : SubSeq(Lowers, i, i) = c
    THEN LET i == CHOOSE i \in 1 .. Len(Lowers) : SubSeq(Lowers, i, i) = c
         IN  SubSeq(Uppers, i, i)
    ELSE c

RECURSIVE ToUpper(_)
ToUpper(s) ==
    IF s = "" THEN ""
    ELSE UpperChar(SubSeq(s, 1, 1)) \o ToUpper(SubSeq(s, 2, Len(s)))

\* strings one edit away from a table name: other case, added whitespace,
\* a character more or less, a scheme in front
NearMisses ==
    UNION { { ToUpper(n), n \o " ", " " \o n, n \o "a",
              SubSeq(n, 1, Len(n) - 1), SubSeq(n, 2, Len(n)),
              "http://" \o n }
            : n \in TableNames }

\* the strings the specification's examples use, and payloads with an empty
\* scheme, an empty host and several separators
Examples ==
    { "not-a-real-region", "http://minio.local:9000", "minio.local:9000",
      "custom", "https", "://host", "http://", "a://b://c", "://://",
      "Us-East-1", "http:/host", "http//host:/" }

Inputs == Strs(MaxLen) \cup TableNames \cup NearMisses \cup Examples

\* the Region values user code constructs without parsing: any unit variant,
\* or Custom around a string of its choice
DirectPayloads == TableNames \cup Examples \cup { "" }

Direct == { Known(t) : t \in KnownTags } \cup { Custom(p) : p \in DirectPayloads }

-----------------------------------------------------------------------------
(* The state machine: one Region value is constructed, then shared         *)
(* read-only by the callers, each of which may call any accessor at any    *)
(* time.                                                                   *)

Init ==
    /\ input = ""
    /\ parsed = NoResult
    /\ region = Unbuilt
    /\ first = [o \in Ops |-> NotCalled]
    /\ last = NoCall
    /\ again = NoResult

\* let region: Region = s.parse().unwrap();
Parse(s) ==
    /\ region = Unbuilt
    /\ parsed = NoResult
    /\ input' = s
    /\ parsed' = Returned(from_str(s))
    /\ region' = IF from_str(s).ok THEN from_str(s).val ELSE Unbuilt
    /\ UNCHANGED <<first, last, again>>

\* let region = Region::EuWest2;  let region = Region::Custom(p);
Choose(r) ==
    /\ region = Unbuilt
    /\ parsed = NoResult
    /\ region' = r
    /\ UNCHANGED <<input, parsed, first, last, again>>

\* the bookkeeping of an accessor call by caller c that returned v
Record(c, o, v) ==
    /\ first' = IF first[o].called THEN first ELSE [first EXCEPT ![o] = Called(v)]
    /\ last' = Call(c, o, v, first[o].called)

\* region.to_string() / write!(f, "{}", region)
CallFmt(c) ==
    /\ region # Unbuilt
    /\ Record(c, "fmt", fmt(region))
    /\ UNCHANGED <<input, parsed, region, again>>

\* region.endpoint()
CallEndpoint(c) ==
    /\ region # Unbuilt
    /\ Record(c, "endpoint", endpoint(region))
    /\ UNCHANGED <<input, parsed, region, again>>

\* region.scheme()
CallScheme(c) ==
    /\ region # Unbuilt
    /\ Record(c, "scheme", scheme(region))
    /\ UNCHANGED <<input, parsed, region, again>>

\* mutant of CallHost: host() rewrites the stored endpoint to the bare host
CallHostTake(c) ==
    /\ region # Unbuilt
    /\ Record(c, "host", host(region))
    /\ region' = IF region.tag = "Custom" THEN Custom(host(region)) ELSE region
    /\ UNCHANGED <<input, parsed, again>>

\* region.host()
CallHost(c) ==
    /\ region # Unbuilt
    /\ Record(c, "host", host(region))
    /\ UNCHANGED <<input, parsed, region, again>>

\* let back: Region = region.to_string().parse().unwrap();
Reparse ==
    /\ first["fmt"].called
    /\ ~ again.returned
    /\ again' = Returned(from_str(first["fmt"].val))
    /\ UNCHANGED <<input, parsed, region, first, last>>

Next ==
    \/ region = Unbuilt /\ \E s \in Inputs : Parse(s)
    \/ region = Unbuilt /\ \E r \in Direct : Choose(r)
    \/ \E c \in Callers : CallFmt(c)
    \/ \E c \in Callers : CallEndpoint(c)
    \/ \E c \in Callers : CallScheme(c)
    \/ \E c \in Callers : CallHost(c)
    \/ Reparse

Spec == Init /\ [][Next]_vars

TypeOK ==
    /\ input \in Inputs \cup { "" }
    /\ parsed.returned \in BOOLEAN
    /\ region.tag \in KnownTags \cup { "Custom", "Unbuilt" }
    /\ \A o \in Ops : first[o].called \in BOOLEAN
    /\ last.op \in Ops
    /\ again.returned \in BOOLEAN

-----------------------------------------------------------------------------
(* Properties *)

Payload == region.endpoint

\* the 1-based position of the first "://" in p (p contains one)
FirstSep(p) ==
    CHOOSE k \in 1 .. (Len(p) - 2) :
        /\ SubSeq(p, k, k + 2) = "://"
        /\ \A j \in 1 .. (k - 1) : SubSeq(p, j, j + 2) # "://"

\* C1: from_str always returns Ok, for the empty string too, and for an input
\* that is not one of the 18 table names the value is Custom(input) with the
\* payload equal to the input.
C1_ParseTotal ==
    parsed.returned =>
        /\ parsed.res.ok
        /\ input \notin TableNames =>
              /\ parsed.res.val = Custom(input)
              /\ parsed.res.val.endpoint = input
              /\ Len(parsed.res.val.endpoint) = Len(input)

C1_Witness ==
    /\ parsed.returned
    /\ input = ""
    /\ parsed.res = Ok(Custom(""))
    /\ region = Custom("")

\* C2: for a known region R, parsing the string Display wrote for R gives
\* Ok(R), and no other known tag is displayed as that string.
C2_RoundTrip ==
    (region.tag \in KnownTags /\ again.returned) =>
        /\ again.res = Ok(region)
        /\ \A t \in KnownTags \ { region.tag } : fmt(Known(t)) # first["fmt"].val

C2_Witness ==
    /\ region = Known("DoNyc3")
    /\ first["fmt"] = Called("nyc3")
    /\ again = Returned(Ok(Known("DoNyc3")))

\* C3: for a known region R, endpoint() and host() both return the default
\* host the table lists for R, which contains no "://", and scheme() returns
\* "https".
C3_KnownHost ==
    region.tag \in KnownTags =>
        LET e == TableEntry(region.tag)
        IN  /\ first["endpoint"].called => first["endpoint"].val = e.host
            /\ first["host"].called =>
                  /\ first["host"].val = e.host
                  /\ ~ HasSep(first["host"].val)
            /\ (first["endpoint"].called /\ first["host"].called) =>
                  first["host"].val = first["endpoint"].val
            /\ first["scheme"].called => first["scheme"].val = "https"

C3_Witness ==
    /\ region = Known("UsEast1")
    /\ first["endpoint"] = Called("s3.amazonaws.com")
    /\ first["host"] = Called("s3.amazonaws.com")
    /\ first["scheme"] = Called("https")

\* C4: scheme() of Custom(p) is the part of p before the first "://" when p
\* contains one (possibly empty), and "https" otherwise.
C4_Scheme ==
    (region.tag = "Custom" /\ first["scheme"].called) =>
        IF HasSep(Payload)
        THEN first["scheme"].val = SubSeq(Payload, 1, FirstSep(Payload) - 1)
        ELSE first["scheme"].val = "https"

C4_Witness ==
    /\ region = Custom("://host")
    /\ first["scheme"] = Called("")

\* C5: host() of Custom(p) is the part of p after the first "://" to the end
\* when p contains one (possibly empty), and p itself otherwise.
C5_Host ==
    (region.tag = "Custom" /\ first["host"].called) =>
        IF HasSep(Payload)
        THEN first["host"].val = SubSeq(Payload, FirstSep(Payload) + 3, Len(Payload))
        ELSE first["host"].val = Payload

C5_Witness ==
    /\ region = Custom("http://")
    /\ first["host"] = Called("")

\* C6: endpoint() of Custom(p) is p itself, scheme prefix included, so it
\* differs from host() whenever p contains "://".
C6_Endpoint ==
    (region.tag = "Custom" /\ first["endpoint"].called) =>
        /\ first["endpoint"].val = Payload
        /\ parsed.returned => first["endpoint"].val = input
        /\ (HasSep(Payload) /\ first["host"].called) =>
              first["endpoint"].val # first["host"].val

C6_Witness ==
    /\ input = "http://minio.local:9000"
    /\ parsed.returned
    /\ first["endpoint"] = Called("http://minio.local:9000")
    /\ first["host"] = Called("minio.local:9000")

\* C7: Display of a Custom value writes exactly "custom", whatever the
\* payload.
C7_Display ==
    (region.tag = "Custom" /\ first["fmt"].called) => first["fmt"].val = "custom"

C7_Witness ==
    /\ region = Custom("us-east-1")
    /\ first["fmt"] = Called("custom")

\* C8: from_str returns a known tag exactly when the input equals one of
\* the 18 table names; every other input, "US-EAST-1" or a name with added
\* whitespace included, gives Custom(input).
C8_Exact ==
    parsed.returned =>
        /\ parsed.res.val.tag \in KnownTags <=> input \in TableNames
        /\ input \in TableNames => parsed.res.val = Known(TableByName(input).tag)
        /\ input \notin TableNames => parsed.res.val = Custom(input)

C8_Witness ==
    /\ input = "US-EAST-1"
    /\ parsed = Returned(Ok(Custom("US-EAST-1")))

\* C9: once constructed, the Region value never changes under any accessor
\* call by any caller, and every call returns what the first call of that
\* accessor returned.
C9_Immutable ==
    [][ region # Unbuilt =>
          /\ region' = region
          /\ \A o \in Ops : first[o].called => first'[o] = first[o]
          /\ last'.called => last'.val = first'[last'.op].val ]_vars

C9_Witness ==
    /\ region = Custom("a://b://c")
    /\ \A o \in Ops : first[o].called
    /\ last = Call(2, "host", "b://c", TRUE)

\* C10: for a Custom payload p containing "://", scheme() ++ "://" ++ host()
\* is p, and scheme() contains no "://".
C10_Lossless ==
    (/\ region.tag = "Custom"
     /\ HasSep(Payload)
     /\ first["scheme"].called
     /\ first["host"].called) =>
        /\ first["scheme"].val \o "://" \o first["host"].val = Payload
        /\ ~ HasSep(first["scheme"].val)

C10_Witness ==
    /\ region = Custom("a://b://c")
    /\ first["scheme"] = Called("a")
    /\ first["host"] = Called("b://c")

=============================================================================
